---- MODULE Spec2Model ----
(***************************************************************************)
(* The parameter server of sparktorch (src/sparktorch/server.py).          *)
(*                                                                         *)
(* Server.start_service runs a Flask application with threaded=True: every *)
(* inbound request is served by its own thread, and the threads share the  *)
(* model parameters, their gradient slots, self.state_dict,                *)
(* self.error_count and one RWLock.  The model has one handler thread per  *)
(* element of Threads; a thread serves one request at a time, and pc[t]    *)
(* is the line of the handler the thread is about to execute.              *)
(*                                                                         *)
(* Parameter values are fixed-point numbers counted in tenths: 10 is 1.0.  *)
(***************************************************************************)
EXTENDS Integers, Sequences, FiniteSets, TLC

\* ------------------------------------------------------------------ bounds

\* Number of requests the workers have in flight at a time, under the
\* workloads of fetches and updates of every kind.
NClients == 2

\* Number of fetch requests and of update requests in flight at a time,
\* under the workload of endless updates.
NFetchers == 1

NUpdaters == 2

\* Number of parameter-changing update requests the workers send.
MaxUpdates == 2

\* Number of update requests with a failing payload the workers send.
MaxFailing == 3

\* The same two numbers for the workload that exhausts the error budget.
BudgetUpdates == 1

BudgetFailing == 12

\* Number of failing update requests in the workload of endless updates.
LiveFailing == 11

\* Number of read locks that faulting fetch requests may leave behind.
MaxFaults == 1

\* ------------------------------------------------------- program constants

\* `if self.error_count > 10`
MaxErrors == 10

\* Learning rate of the plain gradient-descent optimizer handed to the server.
LearningRate == 1

\* Number of learnable parameters of the model handed to the server.
NParams == 2

\* Initial parameter values [1.0, 2.0].
InitParams == <<10, 20>>

\* threaded=True: every request in flight has a handler thread of its own.
NThreads == IF NClients > NFetchers + NUpdaters THEN NClients
            ELSE NFetchers + NUpdaters

Threads == 1..NThreads

\* The threads that serve the requests of each workload.
Clients == 1..NClients

Fetchers == 1..NFetchers

Updaters == (NFetchers + 1)..(NFetchers + NUpdaters)

ParamIndex == 1..NParams

\* ---------------------------------------------------------------- payloads

\* request.data of an update request: bytes that dill.loads either decodes
\* to a list of gradients or rejects by raising.
Undecodable == [decodes |-> FALSE, grads |-> <<>>]

Batch(g) == [decodes |-> TRUE, grads |-> g]

\* Payloads whose handling raises inside the try block.
FailingPayloads == {Undecodable, Batch(<<1>>)}

\* Payloads whose handling reaches optimizer.step(): two batches of the right
\* length and one that is too long.
SteppingPayloads == {Batch(<<1, 2>>), Batch(<<1, 1>>), Batch(<<1, 2, 3>>)}

\* A batch of zero gradients: a valid update that leaves the parameters as
\* they are.
ZeroBatch == Batch(<<0, 0>>)

\* The payloads of the workload that exhausts the error budget.
BudgetPayloads == {Undecodable, Batch(<<1>>), Batch(<<1, 2>>)}

\* The payloads of the workload of endless updates: the valid ones leave the
\* parameters as they are, so they can go on arriving for ever.
LivePayloads == {Undecodable, ZeroBatch}

\* req of a thread that serves no update request.
NoData == Batch(<<>>)

NoList == <<>>

VARIABLES
    lock_acquired,  \* start_service: lock_acquired = self.acquire_lock
    params,         \* the values of self.model.parameters(), by position
    grads,          \* param.grad of each parameter: <<>> is None, <<g>> a gradient
    state_dict,     \* self.state_dict: for each entry the parameter it refers to
    error_count,    \* self.error_count
    lock,           \* the RWLock: readers, writer, writers waiting
    pc,             \* per thread: where the handler stands
    req,            \* per thread: request.data of the update being served
    gradients,      \* per thread: the local `gradients`
    index,          \* per thread: the loop variable over the parameters
    loaded,         \* per thread: the value of self.error_count read by `+= 1`
    status,         \* per thread: "none", "ok", "caught" or "fatal"
    state,          \* per thread: the local `state` of get_parameters
    held,           \* per thread: the mode in which the thread holds the lock
    releases,       \* per thread: calls of lock.release() by the current request
    steps,          \* per thread: calls of optimizer.step() by the current request
    pre,            \* per thread: the parameters when the write lock was acquired
    ord,            \* per thread: position of the request among the failed ones
    late,           \* per thread: the request arrived with the budget exhausted
    expected,       \* the parameters a serial run in lock-acquisition order yields
    committed,      \* the parameter values at each release of the write lock
    nfailed,        \* number of update requests that have failed so far
    nupdates,       \* number of parameter-changing update requests received
    nfailing        \* number of update requests with a failing payload received

shared == <<lock_acquired, params, grads, state_dict, error_count, lock>>

locals == <<pc, req, gradients, index, loaded, status, state>>

\* What the program itself does not hold: the bookkeeping of the properties.
perthread == <<releases, steps, pre, ord, late>>

history == <<expected, committed, nfailed>>

workload == <<nupdates, nfailing>>

ghosts == <<held, perthread, history, workload>>

vars == <<shared, locals, ghosts>>

\* -------------------------------------------------------------- the RWLock
\* sparktorch/rw_lock.py: many readers or one writer, writers preferred.

FreeLock == [readers |-> 0, writer |-> FALSE, waiting |-> 0]

\* A lock that admits readers past the writers that wait.
CanRead_PastWaiting(l) == ~l.writer

\* acquire_read returns once no writer holds the lock and none waits for it.
CanRead(l) == ~l.writer /\ l.waiting = 0

\* acquire_write returns once nobody holds the lock.
CanWrite(l) == ~l.writer /\ l.readers = 0

ReadAcquired(l) == [l EXCEPT !.readers = @ + 1]

WriteAcquired(l) == [l EXCEPT !.writer = TRUE]

\* A writer that finds the lock taken registers as waiting.
WriterQueued(l) == [l EXCEPT !.waiting = @ + 1]

WriterAdmitted(l) == [l EXCEPT !.waiting = @ - 1, !.writer = TRUE]

\* release() detects the mode the lock is held in.
Released(l) == IF l.writer THEN [l EXCEPT !.writer = FALSE]
               ELSE [l EXCEPT !.readers = @ - 1]

\* ------------------------------------------------------------ the handlers

\* A fetch that serializes the snapshot taken at construction.
Dumps_AtConstruction(sd, p) == InitParams

\* dill.dumps(self.state_dict): the entries of the dictionary are the
\* parameters' own tensors (state_dict() shares their storage), so the blob
\* holds the values the parameters have at the moment of the call.
Dumps(sd, p) == [i \in DOMAIN sd |-> p[sd[i]]]

\* self.model.state_dict(): one entry per parameter, referring to it.
ModelStateDict == [i \in ParamIndex |-> i]

\* get_parameters without its `if lock_acquired:` branches.
ReadLocking_Off == FALSE

\* `if lock_acquired:` in get_parameters.
ReadLocking == lock_acquired

\* update_parameters without its `if lock_acquired:` branches.
WriteLocking_Off == FALSE

\* `if lock_acquired:` in update_parameters.
WriteLocking == lock_acquired

\* lock.release() at the end of get_parameters.
FetchReleased(l) == Released(l)

\* update_parameters without the release of its finally block.
FinallyReleased_Never(l, raised) == l

\* The release placed after the try statement instead of in `finally`: the
\* propagating RuntimeError skips it.
FinallyReleased_NotOnRaise(l, raised) == IF raised THEN l ELSE Released(l)

\* lock.release() in the finally block of update_parameters; raised tells
\* whether the RuntimeError of the except block is propagating.
FinallyReleased(l, raised) == Released(l)

\* A request arrives at an idle thread.
Begin(t, first, data) ==
    /\ pc[t] = "idle"
    /\ pc' = [pc EXCEPT ![t] = first]
    /\ req' = [req EXCEPT ![t] = data]
    /\ late' = [late EXCEPT ![t] = error_count > MaxErrors]
    /\ UNCHANGED <<shared, gradients, index, loaded, status, state>>
    /\ UNCHANGED <<held, releases, steps, pre, ord, history>>

\* The handler is left, by a return or by an exception: its locals are gone
\* and the thread is free for the next request.
Leave(t) ==
    /\ pc' = [pc EXCEPT ![t] = "idle"]
    /\ req' = [req EXCEPT ![t] = NoData]
    /\ gradients' = [gradients EXCEPT ![t] = NoList]
    /\ index' = [index EXCEPT ![t] = 0]
    /\ loaded' = [loaded EXCEPT ![t] = 0]
    /\ status' = [status EXCEPT ![t] = "none"]
    /\ state' = [state EXCEPT ![t] = NoList]
    /\ releases' = [releases EXCEPT ![t] = 0]
    /\ steps' = [steps EXCEPT ![t] = 0]
    /\ pre' = [pre EXCEPT ![t] = NoList]
    /\ ord' = [ord EXCEPT ![t] = 0]
    /\ late' = [late EXCEPT ![t] = FALSE]
    /\ UNCHANGED <<shared, held, history, workload>>

\* The thread goes on to the next line of its handler.
Goto(t, line) == pc' = [pc EXCEPT ![t] = line]

\* GET /parameters arrives.
StartFetch(t) ==
    /\ Begin(t, "get_acquire", NoData)
    /\ UNCHANGED workload

\* get_parameters, lines 85-86: `if lock_acquired: lock.acquire_read()`.
GetAcquireRead(t) ==
    /\ pc[t] = "get_acquire"
    /\ IF ReadLocking
       THEN /\ CanRead(lock)
            /\ lock' = ReadAcquired(lock)
            /\ held' = [held EXCEPT ![t] = "read"]
       ELSE UNCHANGED <<lock, held>>
    /\ Goto(t, "get_dumps")
    /\ UNCHANGED <<lock_acquired, params, grads, state_dict, error_count>>
    /\ UNCHANGED <<req, gradients, index, loaded, status, state>>
    /\ UNCHANGED <<perthread, history, workload>>

\* get_parameters, line 87: `state = dill.dumps(self.state_dict)`.
GetDumps(t) ==
    /\ pc[t] = "get_dumps"
    /\ state' = [state EXCEPT ![t] = Dumps(state_dict, params)]
    /\ Goto(t, "get_release")
    /\ UNCHANGED <<shared, ghosts>>
    /\ UNCHANGED <<req, gradients, index, loaded, status>>

\* Where a thread stands between acquire_read and its release.
InReadSection(t) == pc[t] \in {"get_dumps", "get_release"}

\* The read locks held on behalf of no fetch request in its read section.
Leaked == IF lock_acquired
          THEN lock.readers - Cardinality({u \in Threads : InReadSection(u)})
          ELSE 0

\* get_parameters, line 87, when dill.dumps raises (out of memory, an entry
\* that cannot be pickled): no try statement surrounds the call, so the
\* exception leaves the handler from there and lines 88-90 are not run.
GetDumpsRaises(t) ==
    /\ pc[t] = "get_dumps"
    /\ Leaked < MaxFaults
    /\ Leave(t)

\* get_parameters, lines 88-89: `if lock_acquired: lock.release()`.
GetRelease(t) ==
    /\ pc[t] = "get_release"
    /\ IF ReadLocking
       THEN /\ lock' = FetchReleased(lock)
            /\ held' = [held EXCEPT ![t] = IF lock' = lock THEN @ ELSE "none"]
            /\ releases' = [releases EXCEPT
                              ![t] = IF lock' = lock THEN @ ELSE @ + 1]
       ELSE UNCHANGED <<lock, held, releases>>
    /\ Goto(t, "get_return")
    /\ UNCHANGED <<lock_acquired, params, grads, state_dict, error_count>>
    /\ UNCHANGED <<req, gradients, index, loaded, status, state>>
    /\ UNCHANGED <<steps, pre, ord, late, history, workload>>

\* get_parameters, line 90: `return state`.
GetReturn(t) ==
    /\ pc[t] = "get_return"
    /\ Leave(t)

\* The loop assigning the first gradient to every parameter.
GradientAt_First(g, i) == g[1]

\* `gradients[index]` of the assignment loop.
GradientAt(g, i) == g[i]

\* A handler that steps the optimizer twice.
StepParam_Twice(p, g) == p - 2 * LearningRate * g

\* optimizer.step() on one parameter: plain gradient descent.
StepParam(p, g) == p - LearningRate * g

\* `self.error_count += 1` stores the value it read, plus one.
Incremented(v) == v + 1

\* `if self.error_count > 10`
Escalates(count) == count > MaxErrors

\* The payloads the try block fails on: undecodable bytes, and lists shorter
\* than the parameters.
Fails(data) == ~data.decodes \/ Len(data.grads) < NParams

\* The payloads whose optimizer step moves a parameter.
Moves(data) == ~Fails(data) /\ \E i \in ParamIndex : data.grads[i] # 0

\* What one update request does to the parameters when it runs alone.
SerialApply(p, data) ==
    IF Fails(data) THEN p
    ELSE [i \in ParamIndex |-> p[i] - LearningRate * data.grads[i]]

\* POST /update arrives with payload data; the workers send at most
\* maxFailing failing payloads and maxMoving parameter-changing ones.
Arrival(t, data, maxFailing, maxMoving) ==
    /\ Begin(t, "post_acquire", data)
    /\ Fails(data) => nfailing < maxFailing
    /\ Moves(data) => nupdates < maxMoving
    /\ nfailing' = IF Fails(data) THEN nfailing + 1 ELSE nfailing
    /\ nupdates' = IF Moves(data) THEN nupdates + 1 ELSE nupdates

\* POST /update arrives with any of the payloads.
StartUpdate(t) ==
    \E data \in FailingPayloads \cup SteppingPayloads :
        Arrival(t, data, MaxFailing, MaxUpdates)

\* POST /update arrives in the workload that exhausts the error budget.
BudgetStartUpdate(t) ==
    \E data \in BudgetPayloads :
        Arrival(t, data, BudgetFailing, BudgetUpdates)

\* POST /update arrives in the workload of endless updates: one worker has
\* the broken batches.
LiveStartUpdate(t) ==
    \E data \in (IF t = NFetchers + 1 THEN LivePayloads ELSE {ZeroBatch}) :
        Arrival(t, data, LiveFailing, 0)

\* The request has the write lock: what a serial run would do with it is
\* recorded.
Holding(t) ==
    /\ held' = [held EXCEPT ![t] = "write"]
    /\ pre' = [pre EXCEPT ![t] = params]
    /\ expected' = SerialApply(expected, req[t])

\* update_parameters, lines 95-96: `if lock_acquired: lock.acquire_write()`.
\* A writer that cannot have the lock at once waits for it.
PostAcquireWrite(t) ==
    /\ pc[t] = "post_acquire"
    /\ IF ~WriteLocking
       THEN Goto(t, "post_loads") /\ UNCHANGED <<lock, held, pre, expected>>
       ELSE IF CanWrite(lock)
       THEN /\ Goto(t, "post_loads")
            /\ lock' = WriteAcquired(lock)
            /\ Holding(t)
       ELSE /\ Goto(t, "post_wait")
            /\ lock' = WriterQueued(lock)
            /\ UNCHANGED <<held, pre, expected>>
    /\ UNCHANGED <<lock_acquired, params, grads, state_dict, error_count>>
    /\ UNCHANGED <<req, gradients, index, loaded, status, state>>
    /\ UNCHANGED <<releases, steps, ord, late, committed, nfailed, workload>>

\* acquire_write returns to a writer that waited.
PostAdmitWrite(t) ==
    /\ pc[t] = "post_wait"
    /\ CanWrite(lock)
    /\ Goto(t, "post_loads")
    /\ lock' = WriterAdmitted(lock)
    /\ Holding(t)
    /\ UNCHANGED <<lock_acquired, params, grads, state_dict, error_count>>
    /\ UNCHANGED <<req, gradients, index, loaded, status, state>>
    /\ UNCHANGED <<releases, steps, ord, late, committed, nfailed, workload>>

\* An exception leaves the try block: control goes to the except block.
Raise(t) ==
    /\ Goto(t, "post_except")
    /\ nfailed' = nfailed + 1
    /\ ord' = [ord EXCEPT ![t] = nfailed + 1]

\* update_parameters, line 99: `gradients = dill.loads(request.data)`.
PostLoads(t) ==
    /\ pc[t] = "post_loads"
    /\ IF req[t].decodes
       THEN /\ gradients' = [gradients EXCEPT ![t] = req[t].grads]
            /\ index' = [index EXCEPT ![t] = 1]
            /\ Goto(t, "post_assign")
            /\ UNCHANGED <<nfailed, ord>>
       ELSE /\ Raise(t)
            /\ UNCHANGED <<gradients, index>>
    /\ UNCHANGED <<shared, req, loaded, status, state>>
    /\ UNCHANGED <<held, releases, steps, pre, late, expected, committed,
                   workload>>

\* update_parameters, lines 101-102: one round of
\* `for index, param in enumerate(self.model.parameters()):
\*      param.grad = gradients[index]`.
\* A list shorter than the parameters raises IndexError; the entries of a
\* longer list past the last parameter are never looked at.
PostAssign(t) ==
    /\ pc[t] = "post_assign"
    /\ IF index[t] <= Len(gradients[t])
       THEN /\ grads' = [grads EXCEPT
                           ![index[t]] = <<GradientAt(gradients[t], index[t])>>]
            /\ IF index[t] < NParams
               THEN /\ index' = [index EXCEPT ![t] = @ + 1]
                    /\ UNCHANGED pc
               ELSE /\ index' = [index EXCEPT ![t] = 1]
                    /\ Goto(t, "post_step")
            /\ UNCHANGED <<nfailed, ord>>
       ELSE /\ Raise(t)
            /\ UNCHANGED <<grads, index>>
    /\ UNCHANGED <<lock_acquired, params, state_dict, error_count, lock>>
    /\ UNCHANGED <<req, gradients, loaded, status, state>>
    /\ UNCHANGED <<held, releases, steps, pre, late, expected, committed,
                   workload>>

\* update_parameters, line 104: `self.optimizer.step()`, one parameter at a
\* time: a parameter whose grad is None is skipped, any other moves by its
\* gradient slot as that slot stands now.
PostStep(t) ==
    /\ pc[t] = "post_step"
    /\ params' = [params EXCEPT ![index[t]] =
                    IF grads[index[t]] = <<>> THEN @
                    ELSE StepParam(@, grads[index[t]][1])]
    /\ steps' = [steps EXCEPT ![t] = IF index[t] = 1 THEN @ + 1 ELSE @]
    /\ IF index[t] < NParams
       THEN /\ index' = [index EXCEPT ![t] = @ + 1]
            /\ UNCHANGED pc
       ELSE /\ index' = [index EXCEPT ![t] = 0]
            /\ Goto(t, "post_store")
    /\ UNCHANGED <<lock_acquired, grads, state_dict, error_count, lock>>
    /\ UNCHANGED <<req, gradients, loaded, status, state>>
    /\ UNCHANGED <<held, releases, pre, ord, late, history, workload>>

\* update_parameters, line 106: `self.state_dict = self.model.state_dict()`.
\* The try block ends without an exception.
PostStore(t) ==
    /\ pc[t] = "post_store"
    /\ state_dict' = ModelStateDict
    /\ status' = [status EXCEPT ![t] = "ok"]
    /\ Goto(t, "post_finally")
    /\ UNCHANGED <<lock_acquired, params, grads, error_count, lock>>
    /\ UNCHANGED <<req, gradients, index, loaded, state>>
    /\ UNCHANGED ghosts

\* update_parameters, line 109, first half of `self.error_count += 1`: the
\* attribute is read.
PostCountLoad(t) ==
    /\ pc[t] = "post_except"
    /\ loaded' = [loaded EXCEPT ![t] = error_count]
    /\ Goto(t, "post_count")
    /\ UNCHANGED <<shared, ghosts>>
    /\ UNCHANGED <<req, gradients, index, status, state>>

\* update_parameters, line 109, second half: the sum is stored.
PostCountStore(t) ==
    /\ pc[t] = "post_count"
    /\ error_count' = Incremented(loaded[t])
    /\ Goto(t, "post_check")
    /\ UNCHANGED <<lock_acquired, params, grads, state_dict, lock>>
    /\ UNCHANGED <<req, gradients, index, loaded, status, state>>
    /\ UNCHANGED ghosts

\* update_parameters, lines 110-111: `if self.error_count > 10: raise ...`.
\* Without the raise the exception is swallowed and control falls through.
PostCheck(t) ==
    /\ pc[t] = "post_check"
    /\ status' = [status EXCEPT ![t] =
                    IF Escalates(error_count) THEN "fatal" ELSE "caught"]
    /\ Goto(t, "post_finally")
    /\ UNCHANGED <<shared, ghosts>>
    /\ UNCHANGED <<req, gradients, index, loaded, state>>

\* update_parameters, lines 112-114: `finally: if lock_acquired:
\* lock.release()`.  After it the RuntimeError of line 111, if raised, goes
\* on propagating; otherwise control reaches line 116.
PostFinally(t) ==
    /\ pc[t] = "post_finally"
    /\ IF WriteLocking
       THEN /\ lock' = FinallyReleased(lock, status[t] = "fatal")
            /\ held' = [held EXCEPT ![t] = IF lock' = lock THEN @ ELSE "none"]
            /\ releases' = [releases EXCEPT
                              ![t] = IF lock' = lock THEN @ ELSE @ + 1]
            /\ committed' = committed \cup {params}
       ELSE UNCHANGED <<lock, held, releases, committed>>
    /\ Goto(t, IF status[t] = "fatal" THEN "post_raise" ELSE "post_return")
    /\ UNCHANGED <<lock_acquired, params, grads, state_dict, error_count>>
    /\ UNCHANGED <<req, gradients, index, loaded, status, state>>
    /\ UNCHANGED <<steps, pre, ord, late, expected, nfailed, workload>>

\* update_parameters, line 116: `return 'completed'`.
PostReturn(t) ==
    /\ pc[t] = "post_return"
    /\ Leave(t)

\* The RuntimeError of line 111 leaves update_parameters.  Flask answers
\* this one request with a server error; the server of line 118 goes on
\* serving requests.
PostRaise(t) ==
    /\ pc[t] = "post_raise"
    /\ Leave(t)

\* ------------------------------------------------------- the specification

\* Server.__init__ and the start of start_service.
Init ==
    /\ lock_acquired \in BOOLEAN
    /\ params = InitParams
    /\ grads = [i \in ParamIndex |-> <<>>]
    /\ state_dict = ModelStateDict
    /\ error_count = 0
    /\ lock = FreeLock
    /\ pc = [t \in Threads |-> "idle"]
    /\ req = [t \in Threads |-> NoData]
    /\ gradients = [t \in Threads |-> NoList]
    /\ index = [t \in Threads |-> 0]
    /\ loaded = [t \in Threads |-> 0]
    /\ status = [t \in Threads |-> "none"]
    /\ state = [t \in Threads |-> NoList]
    /\ held = [t \in Threads |-> "none"]
    /\ releases = [t \in Threads |-> 0]
    /\ steps = [t \in Threads |-> 0]
    /\ pre = [t \in Threads |-> NoList]
    /\ ord = [t \in Threads |-> 0]
    /\ late = [t \in Threads |-> FALSE]
    /\ expected = InitParams
    /\ committed = {InitParams}
    /\ nfailed = 0
    /\ nupdates = 0
    /\ nfailing = 0

\* The steps of the two handlers, whatever the workload.
Handle(t) ==
    \/ GetAcquireRead(t)
    \/ GetDumps(t)
    \/ GetRelease(t)
    \/ GetReturn(t)
    \/ PostAcquireWrite(t)
    \/ PostAdmitWrite(t)
    \/ PostLoads(t)
    \/ PostAssign(t)
    \/ PostStep(t)
    \/ PostStore(t)
    \/ PostCountLoad(t)
    \/ PostCountStore(t)
    \/ PostCheck(t)
    \/ PostFinally(t)
    \/ PostReturn(t)

\* The server under a workload of fetches and updates of every kind, with
\* too few failures to exhaust the error budget: line 111 never raises.
Next ==
    \/ \E t \in Clients : StartFetch(t)
    \/ \E t \in Clients : StartUpdate(t)
    \/ \E t \in Threads : Handle(t)

Spec == Init /\ [][Next]_vars

\* The server under a workload of many failing updates.
BudgetNext ==
    \/ \E t \in Clients : StartFetch(t)
    \/ \E t \in Clients : BudgetStartUpdate(t)
    \/ \E t \in Threads : Handle(t)
    \/ \E t \in Threads : PostRaise(t)

SpecBudget == Init /\ [][BudgetNext]_vars

\* The server under the workload of Next when dill.dumps can raise.
FaultNext ==
    \/ Next
    \/ \E t \in Clients : GetDumpsRaises(t)

SpecFault == Init /\ [][FaultNext]_vars

\* The server under a workload in which update requests never stop coming.
LiveNext ==
    \/ \E t \in Fetchers : StartFetch(t)
    \/ \E t \in Updaters : LiveStartUpdate(t)
    \/ \E t \in Threads : Handle(t)
    \/ \E t \in Threads : PostRaise(t)

\* Every handler thread that can take its next step takes it in the end:
\* the threads of the server are scheduled by the operating system, and
\* dill and the optimizer return.  A thread waiting for the lock is even
\* granted it if the lock is free for it again and again, which is more than
\* the lock promises: what fails under this scheduling fails all the more
\* without it.  Nothing obliges the workers to send requests.
Scheduled ==
    \A t \in Threads :
        /\ WF_vars(Handle(t) \/ PostRaise(t))
        /\ SF_vars(GetAcquireRead(t))
        /\ SF_vars(PostAdmitWrite(t))

SpecLive == Init /\ [][LiveNext]_vars /\ Scheduled

\* ---------------------------------------------------------- the properties

\* Where a thread stands between acquire_write and the release in `finally`.
InWriteSection(t) ==
    pc[t] \in {"post_loads", "post_assign", "post_step", "post_store",
               "post_except", "post_count", "post_check", "post_finally"}

\* Where a thread stands when its handler has nothing left to do but return
\* or let the RuntimeError out.
Leaving(t) == pc[t] \in {"post_return", "post_raise"}

\* An update request is somewhere in its handler.
Updating(t) == InWriteSection(t) \/ Leaving(t)
                  \/ pc[t] \in {"post_acquire", "post_wait"}

\* C1: an update request that has run its handler to the end, by the return
\* or by the RuntimeError, holds the write lock no more and has released it
\* exactly once (never, when locking is off); with every thread idle the
\* lock is free.
C1_WriteLockReleasedOnEveryExit ==
    /\ \A t \in Threads :
        /\ (Leaving(t) \/ pc[t] = "idle") => held[t] = "none"
        /\ Leaving(t) => releases[t] = IF lock_acquired THEN 1 ELSE 0
    /\ (\A t \in Threads : pc[t] = "idle") => lock = FreeLock

C1_Witness ==
    /\ lock_acquired
    /\ \E t \in Threads :
        pc[t] = "post_raise" /\ status[t] = "fatal" /\ releases[t] = 1

\* C2: with locking on, at most one update request is between its
\* acquire_write and its release, and while one is there no fetch request
\* is between its acquire_read and its release.
C2_WritersExcludeAll ==
    lock_acquired =>
        \A t \in Threads :
            InWriteSection(t) =>
                \A u \in Threads \ {t} :
                    ~InWriteSection(u) /\ ~InReadSection(u)

C2_Witness ==
    /\ lock_acquired
    /\ \E t, u \in Threads :
        /\ pc[t] = "post_step" /\ index[t] = NParams
        /\ pc[u] = "post_wait"

\* C3: with locking on, whenever no update request is in its handler the
\* parameters are what the requests served so far yield when run one after
\* the other in the order they acquired the write lock.
C3_SerialInAcquisitionOrder ==
    (lock_acquired /\ \A t \in Threads : ~Updating(t)) => params = expected

C3_Witness ==
    /\ lock_acquired
    /\ \A t \in Threads : ~Updating(t)
    /\ nupdates = MaxUpdates
    /\ Cardinality(committed) > MaxUpdates
    /\ params = expected

\* C4: with locking on, the snapshot a fetch request has serialized is one
\* of the values the parameters had at the start or when an update request
\* released the write lock.
C4_FetchSeesWholeUpdates ==
    lock_acquired =>
        \A t \in Threads :
            pc[t] \in {"get_release", "get_return"} => state[t] \in committed

C4_Witness ==
    /\ lock_acquired
    /\ \E t \in Threads :
        pc[t] = "get_return" /\ state[t] # InitParams /\ state[t] \in committed

\* Where the except block has decided between swallowing the exception and
\* raising the RuntimeError.
Decided(t) == pc[t] = "post_finally" \/ Leaving(t)

\* C5: the requests that fail first to tenth since the start are handled as
\* recoverable, their exception swallowed; the eleventh is the first whose
\* failure leaves the handler as a RuntimeError.
C5_EleventhFailureEscalatesFirst ==
    \A t \in Threads :
        (Decided(t) /\ ord[t] > 0) =>
            /\ ord[t] <= MaxErrors => status[t] = "caught"
            /\ ord[t] = MaxErrors + 1 => status[t] = "fatal"

\* C6: an update request whose list of gradients is shorter or longer than
\* the parameters is counted as a failure, takes no optimizer step and is
\* not answered 'completed'.
C6_WrongLengthFails ==
    \A t \in Threads :
        (Decided(t) /\ req[t].decodes /\ Len(req[t].grads) # NParams) =>
            /\ status[t] \in {"caught", "fatal"}
            /\ ord[t] > 0
            /\ steps[t] = 0
            /\ pc[t] # "post_return"

\* The optimizer step about to be taken on a parameter uses the gradient the
\* request itself carried for that parameter.
StepsOwnGradient(t) ==
    pc[t] = "post_step" =>
        grads[index[t]] = <<gradients[t][index[t]]>>

\* The try block of the request has ended without an exception.
Succeeded(t) == pc[t] = "post_finally" /\ status[t] = "ok"

\* C7 as stated, for both locking modes: an update request that succeeds
\* has taken exactly one optimizer step, with the gradients it carried.
C7_OneStepWithOwnGradients ==
    \A t \in Threads :
        /\ StepsOwnGradient(t)
        /\ Succeeded(t) => steps[t] = 1

\* C7, amended: with locking on, an update request that succeeds has taken
\* exactly one optimizer step with the gradients it carried, by position;
\* the parameters, and the snapshot a fetch would now get, are the values at
\* the acquisition of the lock moved by those gradients, and differ from
\* them when a gradient is not zero.
C7_OneStepWithOwnGradientsLocked ==
    lock_acquired =>
        \A t \in Threads :
            /\ StepsOwnGradient(t)
            /\ Succeeded(t) =>
                /\ steps[t] = 1
                /\ params = [i \in ParamIndex |->
                               pre[t][i] - LearningRate * gradients[t][i]]
                /\ Dumps(state_dict, params) = params
                /\ Moves(req[t]) => params # pre[t]

C7_Witness ==
    /\ lock_acquired
    /\ \E t \in Threads :
        /\ Succeeded(t)
        /\ pre[t] = <<10, 20>>
        /\ gradients[t] = <<1, 2>>
        /\ params = <<9, 18>>

\* C8: 'completed' is returned only by a request whose try block ended
\* without an exception; a request whose exception was swallowed is answered
\* otherwise.
C8_CompletedOnlyWhenApplied ==
    \A t \in Threads : pc[t] = "post_return" => status[t] = "ok"

\* C9: an update request that arrives when the error counter is above 10 is
\* never applied to the parameters and answered 'completed'.
C9_NoUpdateServedAfterExhaustion ==
    \A t \in Threads :
        (late[t] /\ Updating(t)) => ~(pc[t] = "post_return" /\ steps[t] > 0)

\* C10 as stated: every fetch request reaches its `return state`.
C10_EveryFetchAnswered ==
    \A t \in Threads : (pc[t] = "get_acquire") ~> (pc[t] = "get_return")

\* From some moment on, locking is off or no update request is being served.
UpdatesPause == <>[](~lock_acquired \/ \A t \in Threads : ~Updating(t))

\* C10, amended: with locking off every fetch request reaches its `return
\* state`; with locking on it does whenever the update requests stop coming
\* from some moment on.
C10_FetchAnsweredWhenUpdatesPause == UpdatesPause => C10_EveryFetchAnswered

C10_Witness ==
    /\ lock_acquired
    /\ error_count > MaxErrors
    /\ \E t, u \in Threads :
        /\ pc[t] = "get_return"
        /\ pc[u] = "post_wait"

\* An update request waits for the write lock.
WriterWaits == \E u \in Threads : pc[u] = "post_wait"

\* C11: with locking on, no fetch request enters its read section in a step
\* taken while an update request waits for the write lock; the fetch
\* requests that arrive after the update started to wait are among them.
C11_NoReaderPastWaitingWriter ==
    [][\A t \in Threads :
          (lock_acquired /\ WriterWaits /\ pc[t] = "get_acquire")
              => pc'[t] = "get_acquire"]_vars

C11_Witness ==
    /\ lock_acquired
    /\ WriterWaits
    /\ lock.readers = 0 /\ ~lock.writer
    /\ \E t \in Threads : pc[t] = "get_acquire"

\* The only two parameter-changing update requests so far have both come to
\* their `return 'completed'`, in threads t and u, and no failing request
\* has arrived.
BothCompleted(t, u) ==
    /\ t # u
    /\ pc[t] = "post_return" /\ pc[u] = "post_return"
    /\ nupdates = 2 /\ nfailing = 0

\* What the two requests yield when run one after the other, in both orders.
SerialOutcomes(t, u) ==
    {SerialApply(SerialApply(InitParams, req[t]), req[u]),
     SerialApply(SerialApply(InitParams, req[u]), req[t])}

\* C12: with locking off, an update request whose payload the try block
\* accepts never reaches the except block, whatever runs beside it, and the
\* error counter stays 0 while no failing request has arrived; when two
\* concurrent updates have completed, every parameter has moved by two
\* gradients out of those the two requests carried for it.
C12_RelaxedUpdatesRaceButNeverFail ==
    ~lock_acquired =>
        /\ \A t \in Threads :
            (Updating(t) /\ ~Fails(req[t])) =>
                /\ ord[t] = 0
                /\ status[t] \in {"none", "ok"}
                /\ pc[t] = "post_return" => steps[t] = 1
        /\ nfailing = 0 => error_count = 0
        /\ \A t, u \in Threads :
            BothCompleted(t, u) =>
                \A i \in ParamIndex :
                    \E a, b \in {req[t].grads[i], req[u].grads[i]} :
                        params[i] = InitParams[i] - LearningRate * (a + b)

\* Two concurrent valid updates with different gradients have completed and
\* the parameters are those of neither serial order.
C12_Witness ==
    /\ ~lock_acquired
    /\ error_count = 0
    /\ \E t, u \in Threads :
        /\ BothCompleted(t, u)
        /\ req[t] = Batch(<<1, 2>>) /\ req[u] = Batch(<<1, 1>>)
        /\ params \notin SerialOutcomes(t, u)

\* Where a thread stands inside get_parameters.
Fetching(t) == pc[t] \in {"get_acquire", "get_dumps", "get_release",
                          "get_return"}

\* The thread has serialized its snapshot.
HasSnapshot(t) == pc[t] \in {"get_release", "get_return"}

\* Thread t takes a step of get_parameters.
FetchStep(t) == Fetching(t) /\ pc'[t] # pc[t]

\* C13: a step of a fetch request leaves the parameters, the gradient
\* slots, state_dict and the error counter as they are, and of the lock it
\* changes the count of readers only, which is always the number of fetch
\* requests inside their read sections; the snapshot it serializes is the
\* parameters as they stand, hence equal to the snapshot another fetch
\* holds whenever the parameters have not changed under that one.
C13_FetchChangesNothing ==
    [][\A t \in Threads :
          FetchStep(t) =>
              /\ UNCHANGED <<params, grads, state_dict, error_count>>
              /\ lock'.writer = lock.writer /\ lock'.waiting = lock.waiting
              /\ lock'.readers =
                    IF lock_acquired
                    THEN Cardinality({u \in Threads : InReadSection(u)'})
                    ELSE 0
              /\ pc[t] = "get_dumps" =>
                    /\ state'[t] = params
                    /\ \A u \in Threads :
                          (HasSnapshot(u) /\ state[u] = params)
                              => state'[t] = state[u]]_vars

\* Two fetch requests hold the same snapshot, taken after an update.
C13_Witness ==
    \E t, u \in Threads :
        /\ t # u
        /\ pc[t] = "get_return" /\ pc[u] = "get_return"
        /\ state[t] = state[u]
        /\ state[t] = params
        /\ params # InitParams

\* Thread t takes a step of a handler whose request does not fail: a fetch,
\* or an update whose payload the try block accepts.
SoundStep(t) == pc'[t] # pc[t] /\ ~Fails(req[t]) /\ pc[t] # "idle"

\* C14: no step lowers the error counter, the steps of fetch requests and
\* of successful update requests leave it as it is, and the request that
\* fails 11th since the start escalates, successful updates in between or
\* not.
C14_CounterNeverDecreases ==
    [][/\ error_count' >= error_count
       /\ \A t \in Threads : SoundStep(t) => error_count' = error_count
       /\ \A t \in Threads :
             (Decided(t)' /\ ord'[t] = MaxErrors + 1) => status'[t] = "fatal"
      ]_vars

\* C15: with locking on, a fetch request that has ended, by its return or
\* by an exception, holds no read lock: the lock counts no reader beyond the
\* fetch requests inside their read sections, and is free when every thread
\* is idle.
C15_ReadLockReleasedOnEveryExit ==
    lock_acquired =>
        /\ Leaked = 0
        /\ \A t \in Threads : pc[t] = "idle" => held[t] = "none"
        /\ (\A t \in Threads : pc[t] = "idle") => lock = FreeLock

\* The request of thread t is the only update request the server has had and
\* carries a list whose length is not the number of parameters.
FirstAndMisshaped(t) ==
    /\ Updating(t)
    /\ nupdates + nfailing = 1
    /\ req[t].decodes /\ Len(req[t].grads) # NParams

\* C16: an update request with a list of the wrong length, served by a
\* fresh server, leaves every gradient slot unassigned and the parameters
\* and state_dict as they were constructed.
C16_WrongLengthTouchesNothing ==
    \A t \in Threads :
        FirstAndMisshaped(t) =>
            /\ grads = [i \in ParamIndex |-> <<>>]
            /\ params = InitParams
            /\ state_dict = ModelStateDict

\* Thread t takes a step of update_parameters for a payload that dill.loads
\* rejects.
UndecodableStep(t) == Updating(t) /\ ~req[t].decodes /\ pc'[t] # pc[t]

\* C17: an update request whose payload cannot be deserialized is decoded
\* with the write lock held (locking on), assigns no gradient, takes no
\* optimizer step, leaves the parameters and state_dict alone, raises the
\* error counter by exactly 1 in its counting step and in no other, and has
\* released the lock when it leaves.
C17_UndecodableCountsOnce ==
    [][\A t \in Threads :
          UndecodableStep(t) =>
              /\ UNCHANGED <<params, grads, state_dict>>
              /\ steps'[t] = 0
              /\ error_count' = IF pc[t] = "post_count"
                                THEN error_count + 1 ELSE error_count
              /\ (lock_acquired /\ pc[t] = "post_loads") => held[t] = "write"
              /\ Leaving(t)' =>
                    /\ held'[t] = "none"
                    /\ releases'[t] = IF lock_acquired THEN 1 ELSE 0
      ]_vars

\* Where a thread stands between the exception and the store of the counter.
Uncounted(t) == pc[t] \in {"post_except", "post_count"}

\* C18: with locking on, the error counter is the number of update requests
\* that have raised so far, less the one that has not yet stored its
\* increment; the counter is read, stored and compared only by the holder
\* of the write lock, and a request that has stored its increment finds the
\* counter at its own rank among the failures.
C18_CounterExactWhenLocking ==
    lock_acquired =>
        /\ error_count = nfailed - Cardinality({t \in Threads : Uncounted(t)})
        /\ Cardinality({t \in Threads : Uncounted(t)}) <= 1
        /\ \A t \in Threads :
            /\ (Uncounted(t) \/ pc[t] = "post_check") => held[t] = "write"
            /\ pc[t] = "post_check" => error_count = ord[t]

\* Failing requests are served concurrently: one has stored the counter
\* while another waits for the lock, and failures came before them.
C18_Witness ==
    /\ lock_acquired
    /\ error_count > 2
    /\ \E t, u \in Threads :
        /\ pc[t] = "post_check"
        /\ pc[u] = "post_wait" /\ Fails(req[u])

\* C19: with locking off, the error counter is the number of update
\* requests that have raised so far, less those that have not yet stored
\* their increment, and the request that fails 11th escalates.
C19_CounterExactWithoutLocking ==
    ~lock_acquired =>
        /\ error_count = nfailed - Cardinality({t \in Threads : Uncounted(t)})
        /\ \A t \in Threads :
            (Decided(t) /\ ord[t] = MaxErrors + 1) => status[t] = "fatal"

====
